---- MODULE Spec2Model ----
(***************************************************************************)
(* Role resolution of the Express/Supabase middleware server.              *)
(*                                                                         *)
(* Three versions of the server are modelled:                               *)
(*   "server" : src/server.js          (authenticateUser, /api/register,   *)
(*                                      /api/profile)                      *)
(*   "oauth"  : src/unnamed/part_003   (authMiddleware, OAuth callback)    *)
(*   "legacy" : src/unnamed/part_002   (authMiddleware, /api/register)     *)
(* One deployment runs one version; it is chosen in Init.                  *)
(*                                                                         *)
(* A request is a record that moves from one await of its handler chain    *)
(* to the next; everything the code does between two awaits is one step.   *)
(* profiles is the profile table, authUsers the users of the identity      *)
(* provider, storeUp tells whether the profile store can be reached.       *)
(***************************************************************************)
EXTENDS Naturals, Sequences, FiniteSets, TLC

VARIABLES version, env, profiles, storeUp, req, authUsers

vars == <<version, env, profiles, storeUp, req, authUsers>>

----------------------------------------------------------------------------
(* Bounds of the model *)

\* number of requests the server handles concurrently
NumRequests == 1

Requests == 1..NumRequests

----------------------------------------------------------------------------
(* JavaScript values *)

\* the values undefined and null, distinct from every string of the model
Undefined == "<undefined>"
Null == "<null>"

\* an exception raised while an expression is evaluated
TypeError == "<TypeError>"

\* !v for the values of the model: undefined, null and '' are falsy
Falsy(v) == v \in {Undefined, Null, ""}

\* a ?? b: only undefined and null give way to b
OrElse_nullish(a, b) == IF a \in {Undefined, Null} THEN b ELSE a

\* a || b
OrElse(a, b) == IF Falsy(a) THEN b ELSE a

\* String.prototype.toLowerCase on the e-mail addresses of the model
ToLowerCase(s) ==
  CASE s = "Admin@example.com" -> "admin@example.com"
    [] OTHER -> s

----------------------------------------------------------------------------
(* The identity provider (Supabase Auth) *)

Versions == {"server", "oauth", "legacy"}

SubjectIds == {"u1", "u2", "u3"}

\* the users the identity provider knows: subject id and verified e-mail;
\* u0 signed in without an e-mail, its user.email is undefined
AuthUsers ==
  { [id |-> "u0", email |-> Undefined],
    [id |-> "u1", email |-> "admin@example.com"],
    [id |-> "u2", email |-> "Admin@example.com"],
    [id |-> "u3", email |-> "carol@example.com"] }

\* req.user before the middleware has attached a user
NoUser == [id |-> Undefined, email |-> Undefined]

\* the access tokens in circulation; "tx" belongs to nobody
Tokens == {"t0", "t1", "t2", "t3", "tx"}

TokenOwner(tok) ==
  CASE tok = <<"t0">> -> "u0"
    [] tok = <<"t1">> -> "u1"
    [] tok = <<"t2">> -> "u2"
    [] tok = <<"t3">> -> "u3"
    [] OTHER -> Null

UserById(id) == CHOOSE u \in AuthUsers : u.id = id

\* the subject id the identity provider gives the user a request creates
NewUserId(r) == <<"u4", "u5", "u6">>[r]

\* the results auth.admin.createUser({ email, password }) can give:
\*   "ok"     { data: { user }, error: null }, the user is created
\*   "error"  { data, error }   (the e-mail is registered already, or the
\*            provider failed)
\*   "throw"  the call rejects
CreateUserOutcomes(users, email) ==
  IF \E u \in users : u.email = email
    THEN {"error", "throw"}
    ELSE {"ok", "error", "throw"}

\* the results auth.admin.deleteUser(id) can give:
\*   "ok" (the user is deleted), "error" (an error result), "throw"
DeleteUserOutcomes == {"ok", "error", "throw"}

\* the results supabase.auth.getUser(token) can give:
\*   "user"   { data: { user }, error: null }
\*   "error"  { data: { user: null }, error }   (invalid or expired token)
\*   "nouser" { data: { user: null }, error: null }
\*   "throw"  the call rejects
GetUserOutcomes(tok) ==
  IF TokenOwner(tok) = Null
    THEN {"error", "nouser", "throw"}
    ELSE {"user", "error", "throw"}

----------------------------------------------------------------------------
(* The profile store (table profiles) *)

\* role TEXT NOT NULL DEFAULT 'user' (server.js schema) admits any text;
\* role TEXT DEFAULT 'user' CHECK (role IN ('user','admin')) (OAuth schema)
\* admits the two roles and NULL
StoredRoles(v) ==
  IF v = "server" THEN {"admin", "user", "moderator", ""}
                  ELSE {"admin", "user", Null}

\* a row of profiles: key, e-mail, role; by tells the rows apart that the
\* table holds from the start (0) and that a request inserted (its number)
Row(id, role) == [id |-> id, email |-> UserById(id).email, role |-> role, by |-> 0]

\* no row (data: null)
NoRow == [id |-> Undefined, email |-> Undefined, role |-> Undefined, by |-> 0]

RowsOf(store, id) == { p \in store : p.id = id }

\* the primary key: at most one row per subject id
KeyUnique(store) == \A p, q \in store : p.id = q.id => p = q

\* .from('profiles').select(..).eq(key, id).single(), as the client reports it:
\*   "row"      { data: row, error: null }
\*   "notfound" { data: null, error: PGRST116 }   (no row, or more than one)
\*   "error"    { data: null, error }             (the store failed)
\*   "empty"    { data: null, error: null }
\*   "throw"    the call rejects
SingleOutcomes(store, up, id) ==
  IF up
    THEN IF Cardinality(RowsOf(store, id)) = 1 THEN {"row"} ELSE {"notfound"}
    ELSE {"error", "empty", "throw"}

SingleRow(store, id) == CHOOSE p \in RowsOf(store, id) : TRUE

\* the insert violates a constraint of the table: the primary key, and in the
\* server.js schema email TEXT UNIQUE
Conflicts(v, store, row) ==
  \E p \in store : p.id = row.id \/ (v = "server" /\ p.email = row.email)

\* the table has no key
InsertOutcomes_noKey(v, store, up, row) ==
  IF up THEN {"ok"} ELSE {"error", "throw"}

\* .from('profiles').insert(row).select().single(), as the client reports it:
\*   "ok"        { data: row, error: null }, the row is stored
\*   "duplicate" { data: null, error: 23505 }
\*   "error"     { data: null, error }        (the store failed)
\*   "throw"     the call rejects
InsertOutcomes(v, store, up, row) ==
  IF up
    THEN IF Conflicts(v, store, row) THEN {"duplicate"} ELSE {"ok"}
    ELSE {"error", "throw"}

\* the table after the insert
Inserted(store, row, outcome) == IF outcome = "ok" THEN store \cup {row} ELSE store

----------------------------------------------------------------------------
(* Configuration (process.env, read once at start) *)

\* the values SUPER_ADMIN_EMAIL can have in the environment
EnvEmails == {"admin@example.com", Undefined}

\* server.js exits at start when a required variable is missing;
\* the OAuth server starts without the check
Starts(v, e) == v = "server" => ~Falsy(e.SUPER_ADMIN_EMAIL)

----------------------------------------------------------------------------
(* Requests *)

\* the routes behind the authentication middleware
Routes(v) ==
  IF v = "server" THEN {"dashboard", "profile", "upload"}
                  ELSE {"dashboard", "upload"}

\* the bodies of POST /api/register: email, password and a role field the
\* handler does not read
RegisterBodies ==
  { [email |-> "dave@example.com", password |-> "pw", role |-> Undefined],
    [email |-> "dave@example.com", password |-> "pw", role |-> "admin"],
    [email |-> "dave@example.com", password |-> Undefined, role |-> Undefined],
    [email |-> Undefined, password |-> "pw", role |-> "admin"],
    [email |-> "carol@example.com", password |-> "pw", role |-> "admin"] }

\* the bodies of POST /api/auth/callback: access_token (<<>> when missing)
\* and a role field the handler does not read
CallbackBodies ==
  { [access_token |-> <<>>, role |-> Undefined],
    [access_token |-> <<"tx">>, role |-> Undefined],
    [access_token |-> <<"t1">>, role |-> Undefined],
    [access_token |-> <<"t2">>, role |-> "admin"],
    [access_token |-> <<"t3">>, role |-> Undefined],
    [access_token |-> <<"t3">>, role |-> "admin"] }

\* fileName of the body of an upload request, as a sequence of characters;
\* <<>> is a missing (or empty) fileName
FileNames == { <<>>, <<"a">>, <<".", ".", "/", "a">> }

\* the values Date.now() can return while a request is handled
Times == {"1700000000001", "1700000000002"}

\* Authorization headers, as a sequence of pieces; <<>> is a missing
\* (or empty) header, the piece "Bearer " is the seven characters of the scheme
Headers ==
  { <<>>, <<"Basic ", "t3">>, <<"bearer ", "t3">>, <<"Bearer ", "Bearer ", "t3">> }
    \cup { <<"Bearer ", t>> : t \in Tokens }

IdleReq ==
  [ pc |-> "idle", route |-> "none", hdr |-> <<>>, token |-> <<>>,
    user |-> NoUser, userRole |-> Undefined, isSuperAdmin |-> FALSE,
    status |-> 0, passedAuth |-> FALSE,
    getUserCalls |-> 0, getUserRes |-> "none", lookups |-> 0, lookupRes |-> "none", lookupRole |-> Undefined,
    handlerRan |-> FALSE, storeQueries |-> 0,
    respSuper |-> FALSE, respProfileId |-> Undefined,
    fileName |-> <<>>, now |-> Undefined, path |-> <<>>, signRes |-> "none",
    respPath |-> <<>>,
    email |-> Undefined, password |-> Undefined, bodyRole |-> Undefined,
    newUser |-> NoUser, createRes |-> "none", verifyRes |-> "none",
    checkRes |-> "none",
    insertRes |-> "none", deleteRes |-> "none", respProfile |-> NoRow,
    profileRes |-> "none", responses |-> 0, nexts |-> 0 ]

\* res.status(code).json(..): the response is sent and the chain ends
Respond(rec, code) ==
  [rec EXCEPT !.status = code, !.responses = @ + 1, !.pc = "done"]

\* authHeader.startsWith('Bearer ')
StartsWithBearer(h) == Len(h) > 0 /\ h[1] = "Bearer "

\* authHeader.substring(7), for a header that starts with the 7 characters 'Bearer '
Substring7(h) == Tail(h)

\* authHeader.replace('Bearer ', ''): the first occurrence is removed
RECURSIVE ReplaceBearer(_)
ReplaceBearer(h) ==
  IF h = <<>> THEN <<>>
  ELSE IF Head(h) = "Bearer " THEN Tail(h)
  ELSE <<Head(h)>> \o ReplaceBearer(Tail(h))

\* every occurrence of 'Bearer ' is removed
ExtractToken_replaceAll(v, h) ==
  IF v = "server" THEN Substring7(h)
  ELSE SelectSeq(h, LAMBDA piece : piece # "Bearer ")

ExtractToken(v, h) == IF v = "server" THEN Substring7(h) ELSE ReplaceBearer(h)

\* the comparison reads a variable the environment does not set
FailSafeMatch_wrongVar(email, superAdminEmail) == email = Undefined

\* the comparison ignores letter case
FailSafeMatch_ignoreCase(email, superAdminEmail) ==
  ToLowerCase(email) = ToLowerCase(superAdminEmail)

\* user.email === process.env.SUPER_ADMIN_EMAIL
FailSafeMatch(email, superAdminEmail) == email = superAdminEmail

----------------------------------------------------------------------------
(* Route handlers, up to their first await *)

\* the results a list or count query on profiles can give
QueryOutcomes(up) == IF up THEN {"ok"} ELSE {"error", "throw"}

\* GET /api/admin/dashboard: the handler starts and issues its first query
StartDashboard(rec) ==
  [rec EXCEPT !.handlerRan = TRUE, !.storeQueries = 1, !.pc = "dash_a"]

\* GET /api/profile: the handler starts and issues its lookup
StartProfile(rec) ==
  [rec EXCEPT !.handlerRan = TRUE, !.storeQueries = 1, !.pc = "profile"]

\* the characters [a-zA-Z0-9._-] of the model's alphabet
SafeChars == {"a", ".", "-", "_"}

\* fileName.replace(/[^a-zA-Z0-9._-]/g, '_')
Sanitize(name) ==
  [i \in 1..Len(name) |-> IF name[i] \in SafeChars THEN name[i] ELSE "_"]

\* `${req.user.id}/${Date.now()}_${fileName}` in server.js,
\* `${req.user.id}/${Date.now()}-${sanitizedFileName}` in the other servers
FilePath(v, id, t, name) ==
  IF v = "server" THEN <<id, "/", t, "_">> \o name
                  ELSE <<id, "/", t, "-">> \o Sanitize(name)

\* POST /api/documents/upload: the handler checks fileName, builds the path
\* and asks the object store for a signed upload URL
StartUpload(rec) ==
  LET r1 == [rec EXCEPT !.handlerRan = TRUE] IN
  IF r1.fileName = <<>> THEN Respond(r1, 400)
  ELSE [r1 EXCEPT !.path = FilePath(version, r1.user.id, r1.now, r1.fileName),
                  !.pc = "sign"]

\* the results storage.createSignedUploadUrl(path) can give
SignOutcomes == {"ok", "error", "throw"}

\* from the result of createSignedUploadUrl to the response
UploadReturn(rec, outcome) ==
  LET r1 == [rec EXCEPT !.signRes = outcome] IN
  IF outcome \in {"error", "throw"} THEN Respond(r1, 500)
  ELSE Respond([r1 EXCEPT !.respPath = r1.path], 200)

\* only the role user is turned away
requireAdmin_denyUserOnly(rec) ==
  IF rec.userRole = "user" THEN Respond(rec, 403) ELSE StartDashboard(rec)

\* requireAdmin(req, res, next)
requireAdmin(rec) ==
  IF rec.userRole # "admin" THEN Respond(rec, 403) ELSE StartDashboard(rec)

\* the upload is put behind the admin check
AuthNext_uploadNeedsAdmin(rec) ==
  LET r1 == [rec EXCEPT !.passedAuth = TRUE, !.nexts = @ + 1] IN
  IF r1.route = "dashboard" THEN requireAdmin(r1)
  ELSE IF r1.route = "upload"
    THEN IF r1.userRole # "admin" THEN Respond(r1, 403) ELSE StartUpload(r1)
  ELSE StartProfile(r1)

\* next() of the authentication middleware: the rest of the route's chain
\* runs synchronously up to its first await
AuthNext(rec) ==
  LET r1 == [rec EXCEPT !.passedAuth = TRUE, !.nexts = @ + 1] IN
  IF r1.route = "dashboard" THEN requireAdmin(r1)
  ELSE IF r1.route = "upload" THEN StartUpload(r1)
  ELSE StartProfile(r1)

----------------------------------------------------------------------------
(* authenticateUser / authMiddleware *)

\* the scheme of the header is not checked
AuthBegin_noSchemeCheck(v, route, hdr) ==
  LET r0 == [IdleReq EXCEPT !.route = route, !.hdr = hdr] IN
  IF hdr = <<>>
    THEN Respond(r0, 401)
    ELSE [r0 EXCEPT !.token = Tail(hdr), !.getUserCalls = 1, !.pc = "getUser"]

\* the 401 for a bad header is sent without return: the middleware goes on,
\* to its catch block (no header) or to the verification
AuthBegin_noReturn(v, route, hdr) ==
  LET r0 == [IdleReq EXCEPT !.route = route, !.hdr = hdr] IN
  IF hdr = <<>> THEN Respond(Respond(r0, 401), 500)
  ELSE IF ~StartsWithBearer(hdr)
    THEN [Respond(r0, 401) EXCEPT !.token = Tail(hdr), !.getUserCalls = 1,
                                  !.pc = "getUser"]
    ELSE [r0 EXCEPT !.token = ExtractToken(v, hdr), !.getUserCalls = 1, !.pc = "getUser"]

\* the middleware from its start to the await of auth.getUser(token)
AuthBegin(v, route, hdr) ==
  LET r0 == [IdleReq EXCEPT !.route = route, !.hdr = hdr] IN
  IF hdr = <<>> \/ ~StartsWithBearer(hdr)
    THEN Respond(r0, 401)
    ELSE [r0 EXCEPT !.token = ExtractToken(v, hdr), !.getUserCalls = 1, !.pc = "getUser"]

\* the role lookup is issued before the fail-safe comparison
AuthVerified_lookupFirst(v, e, rec, outcome) ==
  LET r0 == [rec EXCEPT !.getUserRes = outcome] IN
  IF outcome = "throw" THEN Respond(r0, 500)
  ELSE IF outcome \in {"error", "nouser"} THEN Respond(r0, 401)
  ELSE
    LET r1 == [r0 EXCEPT !.user = UserById(TokenOwner(rec.token)),
                         !.lookups = @ + 1] IN
    IF FailSafeMatch(r1.user.email, e.SUPER_ADMIN_EMAIL)
      THEN AuthNext([r1 EXCEPT !.userRole = "admin", !.isSuperAdmin = (v = "server")])
      ELSE [r1 EXCEPT !.pc = "lookup"]

\* a rejected token is verified a second time before the 401
AuthVerified_retry(v, e, rec, outcome) ==
  LET r0 == [rec EXCEPT !.getUserRes = outcome] IN
  IF outcome = "throw" THEN Respond(r0, 500)
  ELSE IF outcome \in {"error", "nouser"} THEN
    IF rec.getUserCalls < 2
      THEN [r0 EXCEPT !.getUserCalls = @ + 1]
      ELSE Respond(r0, 401)
  ELSE
    LET r1 == [r0 EXCEPT !.user = UserById(TokenOwner(rec.token))] IN
    IF FailSafeMatch(r1.user.email, e.SUPER_ADMIN_EMAIL)
      THEN AuthNext([r1 EXCEPT !.userRole = "admin", !.isSuperAdmin = (v = "server")])
      ELSE [r1 EXCEPT !.lookups = @ + 1, !.pc = "lookup"]

\* from the result of getUser to the await of the role lookup (or to next())
AuthVerified(v, e, rec, outcome) ==
  LET r0 == [rec EXCEPT !.getUserRes = outcome] IN
  IF outcome = "throw" THEN Respond(r0, 500)
  ELSE IF outcome \in {"error", "nouser"} THEN Respond(r0, 401)
  ELSE
    LET r1 == [r0 EXCEPT !.user = UserById(TokenOwner(rec.token))] IN
    IF FailSafeMatch(r1.user.email, e.SUPER_ADMIN_EMAIL)
      THEN AuthNext([r1 EXCEPT !.userRole = "admin", !.isSuperAdmin = (v = "server")])
      ELSE [r1 EXCEPT !.lookups = @ + 1, !.pc = "lookup"]

\* a failed lookup fails open
RoleFromLookup_failOpen(v, outcome, row) ==
  IF outcome \in {"notfound", "error"} THEN "admin"
  ELSE IF outcome = "row" THEN OrElse(row.role, "user")
  ELSE IF v = "server" THEN TypeError
  ELSE OrElse(Undefined, "user")

\* a failed lookup is not given the default role
RoleFromLookup_failFast(v, outcome, row) ==
  IF outcome \in {"notfound", "error"} THEN TypeError
  ELSE IF outcome = "row" THEN OrElse(row.role, "user")
  ELSE IF v = "server" THEN TypeError
  ELSE OrElse(Undefined, "user")

\* the stored role is ignored
RoleFromLookup_ignoreRow(v, outcome, row) ==
  IF outcome \in {"notfound", "error", "row"} THEN "user"
  ELSE IF v = "server" THEN TypeError
  ELSE OrElse(Undefined, "user")

\* the role the middleware takes from the result of the lookup;
\* TypeError is the exception of profile.role on a null profile
RoleFromLookup(v, outcome, row) ==
  IF outcome \in {"notfound", "error"} THEN "user"
  ELSE IF outcome = "row" THEN OrElse(row.role, "user")
  ELSE IF v = "server" THEN TypeError
  ELSE OrElse(Undefined, "user")

\* an error result of the lookup is answered like an exception
AuthLookedUp_errorRejects(v, rec, outcome, row) ==
  LET r1 == [rec EXCEPT !.lookupRes = outcome,
                        !.lookupRole = IF outcome = "row" THEN row.role ELSE Undefined]
      role == RoleFromLookup(v, outcome, row) IN
  IF outcome \in {"throw", "error"} \/ role = TypeError THEN Respond(r1, 500)
  ELSE AuthNext([r1 EXCEPT !.userRole = role])

\* the middleware waits for the store: a lookup that fails is issued again
AuthLookedUp_waitsForStore(v, rec, outcome, row) ==
  LET r1 == [rec EXCEPT !.lookupRes = outcome,
                        !.lookupRole = IF outcome = "row" THEN row.role ELSE Undefined]
      role == RoleFromLookup(v, outcome, row) IN
  IF outcome \in {"error", "empty", "throw"} THEN rec
  ELSE AuthNext([r1 EXCEPT !.userRole = role])

\* an upload is resolved without looking at the stored role
AuthLookedUp_byRoute(v, rec, outcome, row) ==
  LET r1 == [rec EXCEPT !.lookupRes = outcome,
                        !.lookupRole = IF outcome = "row" THEN row.role ELSE Undefined]
      role == IF rec.route = "upload" /\ outcome = "row"
                THEN "user" ELSE RoleFromLookup(v, outcome, row) IN
  IF outcome = "throw" \/ role = TypeError THEN Respond(r1, 500)
  ELSE AuthNext([r1 EXCEPT !.userRole = role])

\* from the result of the role lookup to next()
AuthLookedUp(v, rec, outcome, row) ==
  LET r1 == [rec EXCEPT !.lookupRes = outcome,
                        !.lookupRole = IF outcome = "row" THEN row.role ELSE Undefined]
      role == RoleFromLookup(v, outcome, row) IN
  IF outcome = "throw" \/ role = TypeError THEN Respond(r1, 500)
  ELSE AuthNext([r1 EXCEPT !.userRole = role])

----------------------------------------------------------------------------
(* Route handlers, after their awaits *)

\* GET /api/admin/dashboard, from the result of the first query:
\* server.js counts the profiles and only logs an error;
\* the other servers list the users and answer 500 on an error
DashboardA(v, rec, outcome) ==
  IF outcome = "throw" THEN Respond(rec, 500)
  ELSE IF v # "server" /\ outcome = "error" THEN Respond(rec, 500)
  ELSE [rec EXCEPT !.storeQueries = @ + 1, !.pc = "dash_b"]

\* every admin is reported as super admin
DashboardB_roleIsSuper(v, rec, outcome) ==
  IF outcome = "throw" THEN Respond(rec, 500)
  ELSE Respond([rec EXCEPT !.respSuper = (v = "server" /\ rec.userRole = "admin")], 200)

\* GET /api/admin/dashboard, from the result of the second query to the response;
\* server.js reports isSuperAdmin: req.isSuperAdmin || false
DashboardB(v, rec, outcome) ==
  IF outcome = "throw" THEN Respond(rec, 500)
  ELSE Respond([rec EXCEPT !.respSuper = (v = "server" /\ rec.isSuperAdmin)], 200)

\* a profile that is not found is answered with an empty profile
ProfileReturn_notFoundIs200(rec, outcome, row) ==
  LET r1 == [rec EXCEPT !.profileRes = outcome] IN
  IF outcome = "throw" THEN Respond(r1, 500)
  ELSE IF outcome = "error" THEN Respond(r1, 404)
  ELSE Respond([r1 EXCEPT !.respProfileId = IF outcome = "row" THEN row.id ELSE Undefined,
                          !.respSuper = rec.isSuperAdmin], 200)

\* GET /api/profile, from the result of the lookup by req.user.id to the response
ProfileReturn(rec, outcome, row) ==
  LET r1 == [rec EXCEPT !.profileRes = outcome] IN
  IF outcome = "throw" THEN Respond(r1, 500)
  ELSE IF outcome \in {"notfound", "error"} THEN Respond(r1, 404)
  ELSE Respond([r1 EXCEPT !.respProfileId = IF outcome = "row" THEN row.id ELSE Undefined,
                          !.respSuper = rec.isSuperAdmin], 200)

----------------------------------------------------------------------------
(* POST /api/register (server.js, part_002) *)

\* the body is not validated
RegisterBegin_noValidation(body) ==
  [IdleReq EXCEPT !.route = "register", !.handlerRan = TRUE,
                  !.email = body.email, !.password = body.password,
                  !.bodyRole = body.role, !.pc = "createUser"]

\* the handler from its start to the await of auth.admin.createUser
RegisterBegin(body) ==
  LET r0 == [IdleReq EXCEPT !.route = "register", !.handlerRan = TRUE,
                            !.email = body.email, !.password = body.password,
                            !.bodyRole = body.role] IN
  IF Falsy(body.email) \/ Falsy(body.password)
    THEN Respond(r0, 400)
    ELSE [r0 EXCEPT !.pc = "createUser"]

\* the role of the new profile is taken from the body
RegisterRow_trustsBody(v, rec, r) ==
  [id |-> rec.newUser.id,
   email |-> IF v = "server" THEN rec.newUser.email ELSE rec.email,
   role |-> OrElse(rec.bodyRole, "user"), by |-> r]

\* the row the handler inserts: id and email of the created user
\* (part_002: the email of the body), role: 'user'
RegisterRow(v, rec, r) ==
  [id |-> rec.newUser.id,
   email |-> IF v = "server" THEN rec.newUser.email ELSE rec.email,
   role |-> "user", by |-> r]

\* from the result of createUser to the await of the insert
RegisterCreated(rec, outcome, user) ==
  LET r1 == [rec EXCEPT !.createRes = outcome] IN
  IF outcome = "throw" THEN Respond(r1, 500)
  ELSE IF outcome = "error" THEN Respond(r1, 400)
  ELSE [r1 EXCEPT !.newUser = user, !.pc = "insert"]

\* from the result of the insert to the response, or to the await of the
\* rollback auth.admin.deleteUser
RegisterInserted(rec, outcome, row) ==
  LET r1 == [rec EXCEPT !.insertRes = outcome] IN
  IF outcome = "throw" THEN Respond(r1, 500)
  ELSE IF outcome = "ok" THEN Respond([r1 EXCEPT !.respProfile = row], 201)
  ELSE [r1 EXCEPT !.pc = "rollback"]

\* from the result of the rollback to the response: server.js does not look
\* at the result and a rejection reaches its catch block; part_002 catches
\* and logs the rejection
RegisterRolledBack(rec, outcome) ==
  Respond([rec EXCEPT !.deleteRes = outcome], 500)

\* the users of the identity provider after deleteUser(id)
Deleted(users, id, outcome) ==
  IF outcome = "ok" THEN { u \in users : u.id # id } ELSE users

\* ON DELETE CASCADE: the profiles of a deleted user go with it
Cascaded(store, id, outcome) ==
  IF outcome = "ok" THEN { p \in store : p.id # id } ELSE store

----------------------------------------------------------------------------
(* POST /api/auth/callback (part_003) *)

\* the handler from its start to the await of auth.getUser(access_token)
CallbackBegin(body) ==
  LET r0 == [IdleReq EXCEPT !.route = "callback", !.handlerRan = TRUE,
                            !.token = body.access_token,
                            !.bodyRole = body.role] IN
  IF body.access_token = <<>>
    THEN Respond(r0, 400)
    ELSE [r0 EXCEPT !.pc = "cb_getUser"]

\* from the result of getUser to the await of the profile check
CallbackVerified(rec, outcome) ==
  LET r0 == [rec EXCEPT !.verifyRes = outcome] IN
  IF outcome = "throw" THEN Respond(r0, 500)
  ELSE IF outcome \in {"error", "nouser"} THEN Respond(r0, 401)
  ELSE [r0 EXCEPT !.newUser = UserById(TokenOwner(rec.token)),
                  !.pc = "cb_check"]

\* the row the handler inserts for a new OAuth user
CallbackRow(rec, r) ==
  [id |-> rec.newUser.id, email |-> rec.newUser.email, role |-> "user",
   by |-> r]

\* from the result of the profile check to the response (the profile
\* exists) or to the await of the insert; an error of the check is logged
CallbackChecked(rec, outcome, row) ==
  LET r1 == [rec EXCEPT !.checkRes = outcome] IN
  IF outcome = "throw" THEN Respond(r1, 500)
  ELSE IF outcome = "row" THEN Respond([r1 EXCEPT !.respProfile = row], 200)
  ELSE [r1 EXCEPT !.pc = "cb_insert"]

\* the new profile is answered like an existing one
CallbackInserted_status200(rec, outcome, row) ==
  LET r1 == [rec EXCEPT !.insertRes = outcome] IN
  IF outcome = "ok" THEN Respond([r1 EXCEPT !.respProfile = row], 200)
  ELSE Respond(r1, 500)

\* from the result of the insert to the response
CallbackInserted(rec, outcome, row) ==
  LET r1 == [rec EXCEPT !.insertRes = outcome] IN
  IF outcome = "ok" THEN Respond([r1 EXCEPT !.respProfile = row], 201)
  ELSE Respond(r1, 500)

----------------------------------------------------------------------------
(* The state machine *)

AllRows(v) == { Row(id, role) : id \in SubjectIds, role \in StoredRoles(v) }

Init ==
  /\ version \in Versions
  /\ env \in { [SUPER_ADMIN_EMAIL |-> e] : e \in EnvEmails }
  /\ Starts(version, env)
  /\ profiles \in { S \in SUBSET AllRows(version) : KeyUnique(S) }
  /\ storeUp = TRUE
  /\ req = [r \in Requests |-> IdleReq]
  /\ authUsers = AuthUsers

\* a request arrives and the authentication middleware runs to its first await
Receive(r) ==
  /\ req[r].pc = "idle"
  /\ \E route \in Routes(version), hdr \in Headers :
       \/ /\ route # "upload"
          /\ req' = [req EXCEPT ![r] = AuthBegin(version, route, hdr)]
       \/ /\ route = "upload"
          /\ \E name \in FileNames, t \in Times :
               req' = [req EXCEPT ![r] =
                         [AuthBegin(version, route, hdr) EXCEPT
                            !.fileName = name, !.now = t]]
  /\ UNCHANGED <<version, env, profiles, storeUp, authUsers>>

\* the token is kept in a variable all requests share
GetUserReturns_sharedToken(r) ==
  /\ req[r].pc = "getUser"
  /\ \E outcome \in GetUserOutcomes(req[r].token) :
       LET mine == AuthVerified(version, env, req[r], outcome) IN
       req' = [q \in DOMAIN req |->
                 IF q = r THEN mine
                 ELSE IF req[q].pc = "getUser"
                   THEN [req[q] EXCEPT !.token = req[r].token]
                   ELSE req[q]]
  /\ UNCHANGED <<version, env, profiles, storeUp, authUsers>>

\* auth.getUser(token) returns
GetUserReturns(r) ==
  /\ req[r].pc = "getUser"
  /\ \E outcome \in GetUserOutcomes(req[r].token) :
       req' = [req EXCEPT ![r] = AuthVerified(version, env, req[r], outcome)]
  /\ UNCHANGED <<version, env, profiles, storeUp, authUsers>>

\* a lookup that finds no profile creates the default profile
LookupReturns_upserts(r) ==
  /\ req[r].pc = "lookup"
  /\ \E outcome \in SingleOutcomes(profiles, storeUp, req[r].user.id) :
       LET row == IF outcome = "row" THEN SingleRow(profiles, req[r].user.id)
                                     ELSE Row(req[r].user.id, Null) IN
       /\ req' = [req EXCEPT ![r] = AuthLookedUp(version, req[r], outcome, row)]
       /\ profiles' = IF outcome = "notfound"
                        THEN profiles \cup {Row(req[r].user.id, "user")}
                        ELSE profiles
  /\ UNCHANGED <<version, env, storeUp, authUsers>>

\* the role lookup of the middleware returns
LookupReturns(r) ==
  /\ req[r].pc = "lookup"
  /\ \E outcome \in SingleOutcomes(profiles, storeUp, req[r].user.id) :
       LET row == IF outcome = "row" THEN SingleRow(profiles, req[r].user.id)
                                     ELSE Row(req[r].user.id, Null) IN
       req' = [req EXCEPT ![r] = AuthLookedUp(version, req[r], outcome, row)]
  /\ UNCHANGED <<version, env, profiles, storeUp, authUsers>>

\* the first query of the dashboard returns
DashboardAReturns(r) ==
  /\ req[r].pc = "dash_a"
  /\ \E outcome \in QueryOutcomes(storeUp) :
       req' = [req EXCEPT ![r] = DashboardA(version, req[r], outcome)]
  /\ UNCHANGED <<version, env, profiles, storeUp, authUsers>>

\* the second query of the dashboard returns
DashboardBReturns(r) ==
  /\ req[r].pc = "dash_b"
  /\ \E outcome \in QueryOutcomes(storeUp) :
       req' = [req EXCEPT ![r] = DashboardB(version, req[r], outcome)]
  /\ UNCHANGED <<version, env, profiles, storeUp, authUsers>>

\* the lookup of GET /api/profile returns
ProfileReturns(r) ==
  /\ req[r].pc = "profile"
  /\ \E outcome \in SingleOutcomes(profiles, storeUp, req[r].user.id) :
       LET row == IF outcome = "row" THEN SingleRow(profiles, req[r].user.id)
                                     ELSE Row(req[r].user.id, Null) IN
       req' = [req EXCEPT ![r] = ProfileReturn(req[r], outcome, row)]
  /\ UNCHANGED <<version, env, profiles, storeUp, authUsers>>

\* createSignedUploadUrl returns
UploadReturns(r) ==
  /\ req[r].pc = "sign"
  /\ \E outcome \in SignOutcomes :
       req' = [req EXCEPT ![r] = UploadReturn(req[r], outcome)]
  /\ UNCHANGED <<version, env, profiles, storeUp, authUsers>>

\* a registration arrives and the handler runs to its first await
ReceiveRegister(r) ==
  /\ req[r].pc = "idle"
  /\ version \in {"server", "legacy"}
  /\ \E body \in RegisterBodies :
       req' = [req EXCEPT ![r] = RegisterBegin(body)]
  /\ UNCHANGED <<version, env, profiles, storeUp, authUsers>>

\* auth.admin.createUser returns
CreateUserReturns(r) ==
  /\ req[r].pc = "createUser"
  /\ \E outcome \in CreateUserOutcomes(authUsers, req[r].email) :
       LET user == [id |-> NewUserId(r), email |-> req[r].email] IN
       /\ req' = [req EXCEPT ![r] = RegisterCreated(req[r], outcome, user)]
       /\ authUsers' = IF outcome = "ok" THEN authUsers \cup {user} ELSE authUsers
  /\ UNCHANGED <<version, env, profiles, storeUp>>

\* the insert of the registration returns
RegisterInsertReturns(r) ==
  /\ req[r].pc = "insert"
  /\ LET row == RegisterRow(version, req[r], r) IN
     \E outcome \in InsertOutcomes(version, profiles, storeUp, row) :
       /\ req' = [req EXCEPT ![r] = RegisterInserted(req[r], outcome, row)]
       /\ profiles' = Inserted(profiles, row, outcome)
  /\ UNCHANGED <<version, env, storeUp, authUsers>>

\* the rollback auth.admin.deleteUser returns
RollbackReturns(r) ==
  /\ req[r].pc = "rollback"
  /\ \E outcome \in DeleteUserOutcomes :
       /\ req' = [req EXCEPT ![r] = RegisterRolledBack(req[r], outcome)]
       /\ authUsers' = Deleted(authUsers, req[r].newUser.id, outcome)
       /\ profiles' = Cascaded(profiles, req[r].newUser.id, outcome)
  /\ UNCHANGED <<version, env, storeUp>>

\* an OAuth callback arrives and the handler runs to its first await
ReceiveCallback(r) ==
  /\ req[r].pc = "idle"
  /\ version = "oauth"
  /\ \E body \in CallbackBodies :
       req' = [req EXCEPT ![r] = CallbackBegin(body)]
  /\ UNCHANGED <<version, env, profiles, storeUp, authUsers>>

\* auth.getUser(access_token) of the callback returns
CallbackGetUserReturns(r) ==
  /\ req[r].pc = "cb_getUser"
  /\ \E outcome \in GetUserOutcomes(req[r].token) :
       req' = [req EXCEPT ![r] = CallbackVerified(req[r], outcome)]
  /\ UNCHANGED <<version, env, profiles, storeUp, authUsers>>

\* the callback writes the default role over the profile it found
CallbackCheckReturns_resets(r) ==
  /\ req[r].pc = "cb_check"
  /\ \E outcome \in SingleOutcomes(profiles, storeUp, req[r].newUser.id) :
       LET row == IF outcome = "row"
                    THEN SingleRow(profiles, req[r].newUser.id)
                    ELSE NoRow
           reset == [row EXCEPT !.role = "user"] IN
       /\ req' = [req EXCEPT ![r] = CallbackChecked(req[r], outcome, reset)]
       /\ profiles' = IF outcome = "row"
                        THEN (profiles \ {row}) \cup {reset}
                        ELSE profiles
  /\ UNCHANGED <<version, env, storeUp, authUsers>>

\* the profile check of the callback returns
CallbackCheckReturns(r) ==
  /\ req[r].pc = "cb_check"
  /\ \E outcome \in SingleOutcomes(profiles, storeUp, req[r].newUser.id) :
       LET row == IF outcome = "row"
                    THEN SingleRow(profiles, req[r].newUser.id)
                    ELSE NoRow IN
       req' = [req EXCEPT ![r] = CallbackChecked(req[r], outcome, row)]
  /\ UNCHANGED <<version, env, profiles, storeUp, authUsers>>

\* the insert of the callback returns
CallbackInsertReturns(r) ==
  /\ req[r].pc = "cb_insert"
  /\ LET row == CallbackRow(req[r], r) IN
     \E outcome \in InsertOutcomes(version, profiles, storeUp, row) :
       /\ req' = [req EXCEPT ![r] = CallbackInserted(req[r], outcome, row)]
       /\ profiles' = Inserted(profiles, row, outcome)
  /\ UNCHANGED <<version, env, storeUp, authUsers>>

\* the profile store becomes unreachable
StoreFails ==
  /\ storeUp
  /\ storeUp' = FALSE
  /\ UNCHANGED <<version, env, profiles, req, authUsers>>

\* the profile store is reachable again
StoreRecovers ==
  /\ ~storeUp
  /\ storeUp' = TRUE
  /\ UNCHANGED <<version, env, profiles, req, authUsers>>

Next ==
  \/ \E r \in DOMAIN req : Receive(r)
  \/ \E r \in DOMAIN req : GetUserReturns(r)
  \/ \E r \in DOMAIN req : LookupReturns(r)
  \/ \E r \in DOMAIN req : DashboardAReturns(r)
  \/ \E r \in DOMAIN req : DashboardBReturns(r)
  \/ \E r \in DOMAIN req : ProfileReturns(r)
  \/ \E r \in DOMAIN req : UploadReturns(r)
  \/ \E r \in DOMAIN req : ReceiveRegister(r)
  \/ \E r \in DOMAIN req : CreateUserReturns(r)
  \/ \E r \in DOMAIN req : RegisterInsertReturns(r)
  \/ \E r \in DOMAIN req : RollbackReturns(r)
  \/ \E r \in DOMAIN req : ReceiveCallback(r)
  \/ \E r \in DOMAIN req : CallbackGetUserReturns(r)
  \/ \E r \in DOMAIN req : CallbackCheckReturns(r)
  \/ \E r \in DOMAIN req : CallbackInsertReturns(r)
  \/ StoreFails
  \/ StoreRecovers

Spec == Init /\ [][Next]_vars

\* a call the request r awaits returns
Returns(r) ==
  \/ GetUserReturns(r)
  \/ LookupReturns(r)
  \/ DashboardAReturns(r)
  \/ DashboardBReturns(r)
  \/ ProfileReturns(r)
  \/ UploadReturns(r)
  \/ CreateUserReturns(r)
  \/ RegisterInsertReturns(r)
  \/ RollbackReturns(r)
  \/ CallbackGetUserReturns(r)
  \/ CallbackCheckReturns(r)
  \/ CallbackInsertReturns(r)

\* the deployment where every call a request awaits eventually returns;
\* requests need not arrive, and the store need not recover
SpecLive == Spec /\ \A r \in Requests : WF_vars(Returns(r))

\* two requests the server handles concurrently
Pair == {1, 2}

\* the rows of either schema
AnyRows == AllRows("server") \cup AllRows("oauth")

\* the routes every version puts behind its middleware
SharedRoutes == {"dashboard", "upload"}

\* the comparison of the middlewares: request 1 goes through authenticateUser
\* of src/server.js, request 2 through authMiddleware of the version chosen,
\* both with the same header, the same result of the verifier and the same
\* result of the lookup
InitEquiv ==
  /\ version \in {"oauth", "legacy"}
  /\ env \in { [SUPER_ADMIN_EMAIL |-> e] : e \in EnvEmails }
  /\ Starts("server", env)
  /\ profiles \in { S \in SUBSET AnyRows : KeyUnique(S) }
  /\ storeUp \in BOOLEAN
  /\ req = [r \in Pair |-> IdleReq]
  /\ authUsers = AuthUsers

\* the same request arrives at both middlewares
EquivReceive ==
  /\ req[1].pc = "idle" /\ req[2].pc = "idle"
  /\ \E route \in SharedRoutes, hdr \in Headers :
       req' = [r \in Pair |->
                 [AuthBegin(IF r = 1 THEN "server" ELSE version, route, hdr)
                    EXCEPT !.fileName = <<"a">>, !.now = "1700000000001"]]
  /\ UNCHANGED <<version, env, profiles, storeUp, authUsers>>

\* the verifier gives both middlewares the same result
EquivGetUserReturns ==
  /\ req[1].pc = "getUser" /\ req[2].pc = "getUser"
  /\ req[1].token = req[2].token
  /\ \E outcome \in GetUserOutcomes(req[1].token) :
       req' = [r \in Pair |->
                 AuthVerified(IF r = 1 THEN "server" ELSE version, env,
                              req[r], outcome)]
  /\ UNCHANGED <<version, env, profiles, storeUp, authUsers>>

\* the store gives both lookups the same result
EquivLookupReturns ==
  /\ req[1].pc = "lookup" /\ req[2].pc = "lookup"
  /\ req[1].user = req[2].user
  /\ \E outcome \in SingleOutcomes(profiles, storeUp, req[1].user.id) :
       LET row == IF outcome = "row" THEN SingleRow(profiles, req[1].user.id)
                                     ELSE Row(req[1].user.id, Null) IN
       req' = [r \in Pair |->
                 AuthLookedUp(IF r = 1 THEN "server" ELSE version,
                              req[r], outcome, row)]
  /\ UNCHANGED <<version, env, profiles, storeUp, authUsers>>

NextEquiv ==
  \/ EquivReceive
  \/ EquivGetUserReturns
  \/ EquivLookupReturns

SpecEquiv == InitEquiv /\ [][NextEquiv]_vars

\* the profile tables a pair of requests starts from: the empty table, and
\* one where u1 is stored as user, u2 as admin and u3 has no profile yet
PairStores == { {}, {Row("u1", "user"), Row("u2", "admin")} }

\* the deployment with two requests in flight
InitPair ==
  /\ version \in Versions
  /\ env = [SUPER_ADMIN_EMAIL |-> "admin@example.com"]
  /\ profiles \in PairStores
  /\ storeUp = TRUE
  /\ req = [r \in Pair |-> IdleReq]
  /\ authUsers = AuthUsers

SpecPair == InitPair /\ [][Next]_vars

----------------------------------------------------------------------------
(* Properties of role resolution *)

\* the middleware has verified the identity and attached it to the request
Verified(rec) == rec.user # NoUser

\* the identity attached to the request is the fail-safe admin
IsFailSafe(rec) == Verified(rec) /\ rec.user.email = env.SUPER_ADMIN_EMAIL

\* C1: a verified identity whose email equals the fail-safe admin email is
\* resolved to admin and proceeds past the middleware (and so past
\* requireAdmin, into the handler), whatever the profile store holds or does.
C1_FailSafeIsAdmin ==
  \A r \in Requests :
    IsFailSafe(req[r]) =>
      /\ req[r].userRole = "admin"
      /\ req[r].passedAuth
      /\ req[r].handlerRan

\* the fail-safe admin has passed while the store is unreachable and its
\* profile row says user
C1_Witness ==
  \E r \in Requests :
    /\ IsFailSafe(req[r])
    /\ req[r].userRole = "admin"
    /\ req[r].passedAuth
    /\ ~storeUp
    /\ RowsOf(profiles, req[r].user.id) = {Row(req[r].user.id, "user")}

\* C2: for an identity whose email equals the fail-safe email the middleware
\* never issues a role lookup: the comparison comes first and short-circuits.
C2_NoLookupForFailSafe ==
  \A r \in Requests :
    IsFailSafe(req[r]) =>
      /\ req[r].lookups = 0
      /\ req[r].lookupRes = "none"
      /\ req[r].pc # "lookup"

\* a dashboard request of the fail-safe admin has been answered 200 after one
\* verification and no role lookup
C2_Witness ==
  \E r \in Requests :
    /\ IsFailSafe(req[r])
    /\ req[r].status = 200
    /\ req[r].getUserCalls = 1
    /\ req[r].lookups = 0

\* C3: the role of a request is admin only if the identity's email equals the
\* fail-safe email, or the lookup succeeded and returned the stored role admin
\* of that subject id; a failed or not-found lookup never yields admin.
C3_AdminOnlyByFailSafeOrStoredRole ==
  \A r \in Requests :
    /\ req[r].userRole = "admin" =>
         \/ IsFailSafe(req[r])
         \/ /\ Verified(req[r])
            /\ req[r].lookupRes = "row"
            /\ req[r].lookupRole = "admin"
            /\ Row(req[r].user.id, "admin") \in profiles
    /\ req[r].lookupRes \in {"notfound", "error", "empty", "throw"} =>
         req[r].userRole # "admin"

\* an identity that is not the fail-safe admin is admin by its stored role
C3_Witness ==
  \E r \in Requests :
    /\ req[r].userRole = "admin"
    /\ ~IsFailSafe(req[r])
    /\ req[r].lookupRole = "admin"

\* C4: a verified identity whose email differs from the fail-safe email and
\* whose lookup returns not-found or an error is given the role user and
\* proceeds.
C4_NoProfileIsUser ==
  \A r \in Requests :
    (Verified(req[r]) /\ ~IsFailSafe(req[r])
       /\ req[r].lookupRes \in {"notfound", "error"}) =>
      /\ req[r].userRole = "user"
      /\ req[r].passedAuth

\* an identity without a profile row got the role user from a not-found lookup
C4_Witness ==
  \E r \in Requests :
    /\ Verified(req[r]) /\ ~IsFailSafe(req[r])
    /\ req[r].lookupRes = "notfound"
    /\ RowsOf(profiles, req[r].user.id) = {}
    /\ req[r].userRole = "user"

\* C5: a verified identity whose email differs from the fail-safe email and
\* whose lookup returns its stored profile is admin when the stored role is
\* admin and user when the stored role is user.
C5_StoredRoleIsResolved ==
  \A r \in Requests :
    (Verified(req[r]) /\ ~IsFailSafe(req[r]) /\ req[r].lookupRes = "row"
       /\ req[r].lookupRole \in {"admin", "user"}) =>
      /\ req[r].userRole = req[r].lookupRole
      /\ req[r].passedAuth

\* carol has a stored role admin, is not the fail-safe admin and is admin
C5_Witness ==
  \E r \in Requests :
    /\ Verified(req[r]) /\ req[r].user.email = "carol@example.com"
    /\ env.SUPER_ADMIN_EMAIL = "admin@example.com"
    /\ Row(req[r].user.id, "admin") \in profiles
    /\ req[r].lookupRes = "row"
    /\ req[r].userRole = "admin"

\* C6 as stated: the role attached to a request that passed the middleware is
\* always admin or user, whatever role value the profile row holds.
C6_RoleIsAdminOrUser ==
  \A r \in Requests :
    req[r].passedAuth => req[r].userRole \in {"admin", "user"}

\* C6, amended: the role attached to a request is admin, user or the
\* non-empty stored role itself; an empty or missing stored role is treated
\* as user, any other stored value is attached unchanged.
C6_RoleIsStoredOrDefault ==
  \A r \in Requests :
    /\ ~req[r].passedAuth => req[r].userRole = Undefined
    /\ req[r].passedAuth =>
         \/ req[r].userRole \in {"admin", "user"}
         \/ /\ req[r].lookupRes = "row"
            /\ req[r].lookupRole \notin {"", Null, Undefined}
            /\ req[r].userRole = req[r].lookupRole
    /\ (req[r].passedAuth /\ req[r].lookupRes = "row"
          /\ req[r].lookupRole \in {"", Null}) => req[r].userRole = "user"

\* a profile row with an empty or missing role gave the role user
C6_Witness ==
  \E r \in Requests :
    /\ req[r].passedAuth
    /\ req[r].lookupRes = "row"
    /\ req[r].lookupRole \in {"", Null}
    /\ req[r].userRole = "user"

\* C7: GET /api/admin/dashboard is permitted if and only if the role of the
\* request is admin: any other role is answered 403 and neither the handler
\* nor its store queries run; the role admin reaches the handler.
C7_DashboardIffAdmin ==
  \A r \in Requests :
    req[r].route = "dashboard" =>
      /\ req[r].handlerRan <=> (req[r].passedAuth /\ req[r].userRole = "admin")
      /\ (req[r].passedAuth /\ req[r].userRole # "admin") =>
           /\ req[r].status = 403
           /\ req[r].storeQueries = 0
      /\ req[r].status = 403 => (req[r].passedAuth /\ req[r].userRole # "admin")
      /\ req[r].storeQueries > 0 => req[r].handlerRan

\* a dashboard request with a role other than admin was answered 403
C7_Witness ==
  \E r \in Requests :
    /\ req[r].route = "dashboard"
    /\ req[r].passedAuth
    /\ req[r].userRole = "user"
    /\ req[r].status = 403
    /\ ~req[r].handlerRan

\* the request carries no Authorization header that starts with 'Bearer '
BadHeader(rec) ==
  /\ rec.pc # "idle"
  /\ rec.route \in Routes(version)
  /\ (rec.hdr = <<>> \/ rec.hdr[1] # "Bearer ")

\* the identity verifier rejected the token
Rejected(rec) == rec.getUserRes \in {"error", "nouser"}

\* C8: a request without a Bearer header, or whose token the identity
\* verifier rejects, is answered 401 before role resolution: no lookup is
\* issued, no user or role is attached and no downstream handler runs.
C8_UnauthenticatedIs401 ==
  \A r \in Requests :
    (BadHeader(req[r]) \/ Rejected(req[r])) =>
      /\ req[r].status = 401
      /\ req[r].lookups = 0
      /\ req[r].user = NoUser
      /\ req[r].userRole = Undefined
      /\ ~req[r].passedAuth
      /\ ~req[r].handlerRan
      /\ req[r].storeQueries = 0

\* a Bearer token nobody owns was rejected by the verifier and answered 401
C8_Witness ==
  \E r \in Requests :
    /\ req[r].hdr = <<"Bearer ", "tx">>
    /\ req[r].getUserRes = "error"
    /\ req[r].status = 401

C10_ExactMatchOnly ==
  \A r \in Requests :
    (Verified(req[r]) /\ req[r].user.email # env.SUPER_ADMIN_EMAIL) =>
      /\ req[r].lookups = 1
      /\ ~req[r].isSuperAdmin
      /\ req[r].passedAuth => req[r].lookupRes # "none"
      /\ req[r].userRole = "admin" =>
           (req[r].lookupRes = "row" /\ req[r].lookupRole = "admin")

\* an identity whose email differs from the fail-safe email only in letter
\* case was looked up, got the role user and was refused the dashboard
C10_Witness ==
  \E r \in Requests :
    /\ Verified(req[r])
    /\ req[r].user.email # env.SUPER_ADMIN_EMAIL
    /\ ToLowerCase(req[r].user.email) = ToLowerCase(env.SUPER_ADMIN_EMAIL)
    /\ req[r].lookups = 1
    /\ req[r].userRole = "user"
    /\ req[r].status = 403

\* C17: no retries: one request issues at most one identity verification and
\* at most one role lookup; a failure of either is mapped at once to its
\* outcome (401, the default role user), the call is not repeated.
C17_NoRetries ==
  \A r \in Requests :
    /\ req[r].getUserCalls <= 1
    /\ req[r].lookups <= 1
    /\ req[r].getUserRes # "none" => req[r].pc # "getUser"
    /\ req[r].lookupRes # "none" => req[r].pc # "lookup"
    /\ Rejected(req[r]) => (req[r].status = 401 /\ req[r].getUserCalls = 1)
    /\ req[r].lookupRes \in {"notfound", "error"} =>
         (req[r].userRole = "user" /\ req[r].lookups = 1)

\* a role lookup failed once and the request went on as user after one
\* verification and one lookup
C17_Witness ==
  \E r \in Requests :
    /\ req[r].lookupRes = "error"
    /\ req[r].getUserCalls = 1
    /\ req[r].lookups = 1
    /\ req[r].userRole = "user"
    /\ req[r].pc = "done"

\* C18: the upload needs a valid identity and no role: a verified request
\* with a fileName reaches the handler whatever its role, is never answered
\* 403, and gets the signed URL of its path whenever the object store issues
\* one.
C18_UploadNeedsNoRole ==
  \A r \in Requests :
    req[r].route = "upload" =>
      /\ req[r].status # 403
      /\ req[r].passedAuth => req[r].handlerRan
      /\ (req[r].passedAuth /\ req[r].fileName # <<>>) =>
           (req[r].pc = "sign" \/ req[r].signRes # "none")
      /\ req[r].signRes = "ok" =>
           (req[r].status = 200 /\ req[r].respPath = req[r].path)

\* an identity with the role user got a signed upload URL
C18_Witness ==
  \E r \in Requests :
    /\ req[r].route = "upload"
    /\ req[r].userRole = "user"
    /\ req[r].signRes = "ok"
    /\ req[r].status = 200

\* the path stays below the caller's folder: subject id, one '/', then a
\* component without a path separator
InNamespace(path, id) ==
  /\ Len(path) > 4
  /\ path[1] = id
  /\ path[2] = "/"
  /\ \A i \in 3..Len(path) : path[i] \notin {"/", "\\"}

\* the component holds the traversal sequence '../'
HasTraversal(path) ==
  \E i \in 1..Len(path) :
    i + 2 <= Len(path) /\ path[i] = "." /\ path[i+1] = "." /\ path[i+2] = "/"

\* C19: every path a signed upload URL is requested for is the caller's
\* subject id, one '/', a timestamp and a file-name component without path
\* separator or traversal sequence.
C19_PathScopedToCaller ==
  \A r \in Requests :
    req[r].path # <<>> =>
      /\ InNamespace(req[r].path, req[r].user.id)
      /\ req[r].path[3] = req[r].now
      /\ ~HasTraversal(req[r].path)


----------------------------------------------------------------------------
(* Properties of the middleware's effects and of profile creation *)

\* the request is inside the authentication middleware, or about to enter it
InMiddleware(r) ==
  \/ req[r].pc \in {"getUser", "lookup"}
  \/ req[r].pc = "idle" /\ req'[r].route \in Routes(version)

\* C12: a step of the authentication middleware, on any path (rejected,
\* fail-safe, looked up), leaves the profile store, the users of the identity
\* provider and the configuration unchanged.
C12_MiddlewareChangesNothing ==
  [][\A r \in DOMAIN req :
       (InMiddleware(r) /\ req'[r] # req[r]) =>
         /\ profiles' = profiles
         /\ storeUp' = storeUp
         /\ authUsers' = authUsers
         /\ env' = env
         /\ version' = version]_vars

\* a request whose lookup found no profile has passed the middleware, and
\* there is still no profile of its user and no change of the users
C12_Witness ==
  \E r \in Requests :
    /\ req[r].passedAuth
    /\ req[r].lookupRes = "notfound"
    /\ req[r].userRole = "user"
    /\ RowsOf(profiles, req[r].user.id) = {}
    /\ authUsers = AuthUsers

\* C14: every profile that comes into the store has role user, whatever role
\* field the body of the register or callback request carries.
C14_CreatedRoleIsUser ==
  [][\A p \in profiles' \ profiles : p.role = "user"]_vars

\* a request whose body said role admin was answered 201 with a stored
\* profile of role user
C14_Witness ==
  \E r \in Requests :
    /\ req[r].route \in {"register", "callback"}
    /\ req[r].bodyRole = "admin"
    /\ req[r].status = 201
    /\ req[r].respProfile.role = "user"
    /\ req[r].respProfile \in profiles

\* the identity provider holds the user the registration r created
HasAuthUser(r) == \E u \in authUsers : u.id = NewUserId(r)

\* C15: after a registration has completed, either the auth user and its
\* profile both exist and the response is 201, or neither exists.
C15_RegistrationAtomic ==
  \A r \in Requests :
    (req[r].route = "register" /\ req[r].pc = "done") =>
      \/ /\ req[r].status = 201
         /\ HasAuthUser(r)
         /\ RowsOf(profiles, NewUserId(r)) # {}
      \/ /\ req[r].status # 201
         /\ ~HasAuthUser(r)
         /\ RowsOf(profiles, NewUserId(r)) = {}

----------------------------------------------------------------------------
(* Properties of two requests in flight *)

\* the middleware has resolved the role of the request
Resolved(rec) == Verified(rec) /\ rec.userRole # Undefined

OwnInputsOnly(rec) ==
  /\ Verified(rec) =>
       rec.user = UserById(TokenOwner(ExtractToken(version, rec.hdr)))
  /\ rec.userRole # Undefined =>
       rec.userRole =
         IF IsFailSafe(rec) THEN "admin"
         ELSE RoleFromLookup(version, rec.lookupRes, [role |-> rec.lookupRole])

\* C13: under every interleaving of two requests, the user and role attached
\* to each depend only on its own verified identity, the fail-safe email and
\* the result of its own lookup, and no step of one request touches what is
\* attached to the other.
C13_RequestsNeverInteract ==
  /\ [](\A r \in DOMAIN req : OwnInputsOnly(req[r]))
  /\ [][\A r1, r2 \in DOMAIN req :
          r1 # r2 => (req'[r1] = req[r1] \/ req'[r2] = req[r2])]_vars

\* two requests of different users were verified while both were in flight
\* and were resolved to different roles
C13_Witness ==
  /\ DOMAIN req = Pair
  /\ req[1].getUserCalls = 1 /\ req[2].getUserCalls = 1
  /\ req[1].user.id = "u2" /\ req[2].user.id = "u3"
  /\ req[1].userRole = "admin" /\ req[2].userRole = "user"
  /\ req[1].pc = "done" /\ req[2].pc = "done"

\* C16: whatever the interleaving of register and callback requests, the
\* profile store holds at most one profile per subject id.
C16_OneProfilePerSubject ==
  \A id \in { p.id : p \in profiles } : Cardinality(RowsOf(profiles, id)) = 1

\* two concurrent callbacks of the new user u3 both found no profile; the
\* insert of one was stored, the insert of the other refused as a duplicate
C16_Witness ==
  /\ DOMAIN req = Pair
  /\ req[1].route = "callback" /\ req[2].route = "callback"
  /\ req[1].newUser.id = "u3" /\ req[2].newUser.id = "u3"
  /\ req[1].checkRes = "notfound" /\ req[2].checkRes = "notfound"
  /\ req[1].insertRes = "ok" /\ req[2].insertRes = "duplicate"
  /\ Cardinality(RowsOf(profiles, "u3")) = 1

----------------------------------------------------------------------------
(* Properties of the handlers *)

UploadSucceeded(rec) ==
  rec.route = "upload" /\ rec.signRes = "ok" /\ rec.status = 200

\* C22: two distinct successful uploads never receive the same path.
C22_UploadPathsUnique ==
  \A r1, r2 \in DOMAIN req :
    (r1 # r2 /\ UploadSucceeded(req[r1]) /\ UploadSucceeded(req[r2])) =>
      req[r1].respPath # req[r2].respPath

\* the registration was answered 400
Register400(rec) == rec.route = "register" /\ rec.status = 400

\* C23: a registration answered 400 has created no auth user and no
\* profile, and the step that answers it changes neither the identity
\* provider's users nor the profile store; when email or password is missing
\* the answer is 400 and createUser, insert and deleteUser are never called.
C23_Register400ChangesNothing ==
  /\ [](\A r \in DOMAIN req :
          /\ Register400(req[r]) =>
               /\ req[r].createRes \in {"none", "error"}
               /\ req[r].insertRes = "none"
               /\ req[r].deleteRes = "none"
               /\ ~HasAuthUser(r)
               /\ { p \in profiles : p.by = r } = {}
          /\ ( /\ req[r].route = "register"
               /\ (Falsy(req[r].email) \/ Falsy(req[r].password)) ) =>
               /\ req[r].status = 400
               /\ req[r].createRes = "none")
  /\ [][\A r \in DOMAIN req :
          (Register400(req'[r]) /\ req'[r] # req[r]) =>
            (authUsers' = authUsers /\ profiles' = profiles)]_vars

\* a registration with an e-mail that is registered already was refused by
\* the identity provider and answered 400; the users are the initial ones
C23_Witness ==
  \E r \in Requests :
    /\ Register400(req[r])
    /\ req[r].email = "carol@example.com"
    /\ req[r].createRes = "error"
    /\ authUsers = AuthUsers
    /\ { p \in profiles : p.by # 0 } = {}

\* C24: in src/server.js the dashboard response reports isSuperAdmin true
\* exactly when the caller's email equals the fail-safe email; a caller who is
\* admin through the stored role alone is reported false, and the flag is
\* attached to the request for the fail-safe identity only.
C24_SuperAdminIffFailSafe ==
  \A r \in Requests :
    version = "server" =>
      /\ (req[r].route = "dashboard" /\ req[r].status = 200) =>
           (req[r].respSuper <=> IsFailSafe(req[r]))
      /\ req[r].isSuperAdmin => IsFailSafe(req[r])
      /\ (IsFailSafe(req[r]) /\ req[r].passedAuth) => req[r].isSuperAdmin

\* src/server.js answered the dashboard request of the fail-safe admin with
\* isSuperAdmin true
C24_Witness ==
  \E r \in Requests :
    /\ version = "server"
    /\ req[r].route = "dashboard"
    /\ req[r].status = 200
    /\ IsFailSafe(req[r])
    /\ req[r].respSuper

\* the profile the response of GET /api/profile carries is the caller's own
OwnProfileOnly(rec) ==
  (rec.route = "profile" /\ rec.respProfileId # Undefined) =>
    (rec.status = 200 /\ rec.profileRes = "row" /\ rec.respProfileId = rec.user.id)

\* C25 as stated: GET /api/profile returns the caller's own profile only, and
\* is answered 404 whenever its lookup fails (error result or thrown
\* exception) or finds no row.
C25_FailedLookupIs404 ==
  \A r \in Requests :
    /\ OwnProfileOnly(req[r])
    /\ req[r].profileRes \in {"notfound", "error", "throw", "empty"} =>
         req[r].status = 404

\* C25, amended: GET /api/profile returns the caller's own profile only; a
\* lookup that returns an error, not-found included, is answered 404, a
\* lookup that throws is answered 500, and a lookup that returns neither an
\* error nor a row is answered 200 without a profile id.
C25_ProfileIsOwnOr404 ==
  \A r \in Requests :
    /\ OwnProfileOnly(req[r])
    /\ req[r].profileRes \in {"notfound", "error"} => req[r].status = 404
    /\ req[r].profileRes = "throw" => req[r].status = 500
    /\ req[r].profileRes = "empty" =>
         (req[r].status = 200 /\ req[r].respProfileId = Undefined)
    /\ req[r].profileRes = "row" =>
         (req[r].status = 200 /\ req[r].respProfileId = req[r].user.id)

\* the fail-safe admin, who has no profile row, asked for its profile while
\* other subjects have rows, and was answered 404
C25_Witness ==
  \E r \in Requests :
    /\ req[r].route = "profile"
    /\ IsFailSafe(req[r])
    /\ req[r].userRole = "admin"
    /\ RowsOf(profiles, req[r].user.id) = {}
    /\ profiles # {}
    /\ req[r].profileRes = "notfound"
    /\ req[r].status = 404

\* the request was resolved to admin by the fail-safe comparison, without
\* a role lookup
AdminByFailSafe(rec) ==
  Verified(rec) /\ rec.userRole = "admin" /\ rec.lookups = 0

\* C26: the fail-safe path grants admin only to an identity whose email
\* equals a configured, non-empty fail-safe email: src/server.js serves no
\* request without SUPER_ADMIN_EMAIL, and when no fail-safe email is
\* configured no identity, one without an email included, is admin by the
\* fail-safe comparison.
C26_FailSafeNeedsConfiguredEmail ==
  /\ version = "server" => ~Falsy(env.SUPER_ADMIN_EMAIL)
  /\ \A r \in Requests :
       AdminByFailSafe(req[r]) =>
         /\ ~Falsy(env.SUPER_ADMIN_EMAIL)
         /\ req[r].user.email = env.SUPER_ADMIN_EMAIL

\* C27: every request gets exactly one response: never a second one, none
\* while a call is awaited, one when the request is finished; the middleware
\* passes control on at most once, and when it has answered itself (401,
\* 500) it has not passed control on.
C27_ExactlyOneResponse ==
  \A r \in Requests :
    /\ req[r].responses <= 1
    /\ req[r].nexts <= 1
    /\ (req[r].pc = "done") <=> (req[r].responses = 1)
    /\ req[r].responses = 1 => req[r].status # 0
    /\ req[r].passedAuth <=> (req[r].nexts = 1)
    /\ (req[r].route \in Routes(version) /\ ~req[r].passedAuth) =>
         (req[r].pc \in {"getUser", "lookup"}
            \/ (req[r].responses = 1 /\ req[r].status \in {401, 500}))

\* a dashboard request was passed on once by the middleware and answered
\* once by the handler
C27_Witness ==
  \E r \in Requests :
    /\ req[r].route = "dashboard"
    /\ req[r].nexts = 1
    /\ req[r].handlerRan
    /\ req[r].responses = 1
    /\ req[r].status = 200

\* a finished callback with a valid token to which the store gave only the
\* answers it gives when it works: the row or not-found for the check,
\* stored or duplicate for the insert
CallbackOnWorkingStore(rec) ==
  /\ rec.route = "callback"
  /\ rec.pc = "done"
  /\ rec.verifyRes = "user"
  /\ rec.checkRes \in {"row", "notfound"}
  /\ rec.checkRes = "notfound" => rec.insertRes \in {"ok", "duplicate"}

\* C28: with a valid token and a store that does not fail, the callback is
\* answered 201 or 200 under every interleaving with other callbacks for the
\* same subject id.
C28_CallbackAlwaysSucceeds ==
  \A r \in DOMAIN req :
    CallbackOnWorkingStore(req[r]) => req[r].status \in {200, 201}

\* the request has been received and not answered yet
Pending(rec) == rec.pc \notin {"idle", "done"}

\* C29: provided every awaited call eventually returns, every request that
\* has arrived is eventually answered, once.
C29_EveryRequestAnswered ==
  \A r \in Requests :
    Pending(req[r]) ~> (req[r].pc = "done" /\ req[r].responses = 1)

\* a registration went through its three awaited calls while the store was
\* unreachable and was answered
C29_Witness ==
  \E r \in Requests :
    /\ req[r].route = "register"
    /\ req[r].createRes = "ok"
    /\ req[r].insertRes = "error"
    /\ req[r].deleteRes # "none"
    /\ req[r].pc = "done"
    /\ req[r].responses = 1
    /\ ~storeUp

----------------------------------------------------------------------------
(* Equivalence of the middlewares *)

\* what the middleware has made of the request: the token it verifies, the
\* call it awaits, its own answer (401, 500), or next() and the role
MiddlewareOutcome(rec) ==
  [ token |-> rec.token,
    passed |-> rec.passedAuth,
    awaiting |-> IF rec.passedAuth THEN "none" ELSE rec.pc,
    status |-> IF rec.passedAuth THEN 0 ELSE rec.status,
    role |-> rec.userRole ]

====
